---- MODULE Spec2Model ----
(***************************************************************************)
(* Model of package_extension.py: the packaging script that filters the    *)
(* files of an extension source directory and writes them into a .xpi      *)
(* (ZIP) archive.  Paths and patterns are strings; the file system is the  *)
(* set of directories, the set of regular files (root, name) and the       *)
(* content of the archives under the working directory.                    *)
(***************************************************************************)
EXTENDS Integers, Sequences, FiniteSets, TLC

(* ----------------------------- bounds --------------------------------- *)
\* number of files besides manifest.json that the source directory holds
MaxOther == 3
\* number of times main() is run in a row on the same working directory
MaxRuns == 2

(* -------------------------- configuration ----------------------------- *)
SOURCE_DIR == "bookmark-folder-organizer"
OUTPUT_DIR == "dist"
EXTENSION_NAME == "bookmark-folder-organizer"

INCLUDE_PATTERNS ==
    << "manifest.json", "popup.html", "popup.css", "popup.js", "README.md",
       "services/*.js", "icons/*.png" >>

EXCLUDE_PATTERNS ==
    << "*.test.js", "*.test.md", ".gitkeep", "node_modules", ".git",
       ".DS_Store", "Thumbs.db" >>

(* --------------------------- str methods ------------------------------ *)
\* s.startswith(t)
startswith(s, t) == Len(t) <= Len(s) /\ SubSeq(s, 1, Len(t)) = t

\* s.endswith(t)
endswith(s, t) ==
    Len(t) <= Len(s) /\ SubSeq(s, Len(s) - Len(t) + 1, Len(s)) = t

\* t in s : scan of the start positions, left to right
RECURSIVE find_from(_, _, _)
find_from(s, t, i) ==
    IF i + Len(t) - 1 > Len(s) THEN FALSE
    ELSE IF SubSeq(s, i, i + Len(t) - 1) = t THEN TRUE
    ELSE find_from(s, t, i + 1)

str_in(t, s) == find_from(s, t, 1)

\* s.replace('*', '') : copy of s without its '*' characters
RECURSIVE replace_star(_)
replace_star(s) ==
    IF s = "" THEN ""
    ELSE IF SubSeq(s, 1, 1) = "*" THEN replace_star(Tail(s))
    ELSE SubSeq(s, 1, 1) \o replace_star(Tail(s))

(* --------------------------- os.path ---------------------------------- *)
\* os.path.join(root, file)
path_join(root, file) == root \o "/" \o file

\* os.path.relpath(path, start) for a start directory of one component
relpath(path, start) ==
    IF startswith(path, start \o "/")
    THEN SubSeq(path, Len(start) + 2, Len(path))
    ELSE "../" \o path

(* ------------------------- should_include ----------------------------- *)
\* variant: only the suffix test, the substring test left out
excluded_by_suffix(pattern, file_path) ==
    endswith(file_path, replace_star(pattern))

\* the test of one exclude pattern (the condition of the if in the loop)
excluded_by(pattern, file_path) ==
    str_in(pattern, file_path) \/ endswith(file_path, replace_star(pattern))

\* the for loop over EXCLUDE_PATTERNS from index i, with its early return
RECURSIVE exclude_loop(_, _)
exclude_loop(file_path, i) ==
    IF i > Len(EXCLUDE_PATTERNS) THEN TRUE
    ELSE IF excluded_by(EXCLUDE_PATTERNS[i], file_path) THEN FALSE
    ELSE exclude_loop(file_path, i + 1)

\* variant: a file must also end with an include pattern to be packaged
should_include_listed(file_path) ==
    /\ exclude_loop(file_path, 1)
    /\ \E i \in 1..Len(INCLUDE_PATTERNS) :
          endswith(file_path, replace_star(INCLUDE_PATTERNS[i]))

should_include(file_path) == exclude_loop(file_path, 1)

(* --------------------------- the state -------------------------------- *)
VARIABLES
    fs_dirs,      \* the directories that exist, by path from the working directory
    fs_files,     \* the regular files that exist, as <<root, name>>
    zip_content,  \* <<path, entry names>> of each archive file that exists
    manifest,     \* the content of SOURCE_DIR/manifest.json
    listing,      \* the order in which the file system lists directory entries
    unreadable,   \* the files that cannot be opened for reading
    pc,           \* the statement main() is at
    runs,         \* number of the current run of main()
    console,      \* the lines printed by the current run
    exc,          \* the exception raised in this run (the e of main), or NoExc
    version,      \* local of create_xpi
    output_path,  \* local of create_xpi
    file_count,   \* local of create_xpi
    zipf,         \* state of the archive writer: "none", "open" or "closed"
    visited,      \* the files os.walk has yielded so far in this run
    decided,      \* <<file_path, result>> of the last call of should_include
    entered,      \* create_xpi was called in this run
    failed_at,    \* the step of create_xpi that raised in this run, or "none"
    touched,      \* the paths this run created or overwrote
    outcome,      \* "running", "returned" or "raised" (left main() by an exception)
    prev          \* what the previous run left: its outcome, path and entries

vars == << fs_dirs, fs_files, zip_content, manifest, listing, unreadable, pc, runs,
           console, exc, version, output_path, file_count, zipf, visited,
           decided, entered, failed_at, touched, outcome, prev >>

env == << manifest, listing, unreadable >>
walk_vars == << visited, decided, file_count >>

NoExc == [cls |-> "none", msg |-> ""]
NoPrev == [ok |-> FALSE, path |-> "", entries |-> << >>]

\* one printed line: its kind, its text argument and its number argument
Line(k, a, n) == [k |-> k, a |-> a, n |-> n]

(* --------------------- the working directories ------------------------ *)
ManifestFile == << SOURCE_DIR, "manifest.json" >>

\* the files a source directory may hold, in the order of their names
FileNames ==
    << << SOURCE_DIR, ".DS_Store" >>,
       ManifestFile,
       << SOURCE_DIR, "notes.txt" >>,
       << SOURCE_DIR, "popup.js" >>,
       << SOURCE_DIR, "popup.test.js" >>,
       << SOURCE_DIR \o "/node_modules", "x.js" >>,
       << SOURCE_DIR \o "/services", "api.js" >>,
       << SOURCE_DIR \o "/services", "lib*.test.js" >> >>

OtherFiles == { FileNames[i] : i \in 1..Len(FileNames) } \ { ManifestFile }

\* the position of a file in the listing order; files outside FileNames last
rank(f) ==
    IF \E i \in 1..Len(FileNames) : FileNames[i] = f
    THEN LET i == CHOOSE k \in 1..Len(FileNames) : FileNames[k] = f
         IN IF listing = "ascending" THEN i ELSE Len(FileNames) + 1 - i
    ELSE Len(FileNames) + 1

\* the documents manifest.json may hold: not JSON, or an object given by
\* its <<key, value>> members
ManifestDocs ==
    { [valid |-> FALSE, obj |-> {}],
      [valid |-> TRUE, obj |-> {}],
      [valid |-> TRUE, obj |-> { << "version", "2.1.0" >> }] }

OldArchive == "dist/bookmark-folder-organizer-2.1.0.xpi"

\* what is at OUTPUT_DIR before the first run
DistStates == { "absent", "file", "old", "clash" }

(* ------------------------------ Init ---------------------------------- *)
Init ==
    \E src \in BOOLEAN, man \in BOOLEAN, others \in SUBSET OtherFiles,
       doc \in ManifestDocs, dist \in DistStates :
      LET source == IF ~src THEN {}
                    ELSE others \cup (IF man THEN { ManifestFile } ELSE {})
      IN
      /\ Cardinality(others) <= MaxOther
      /\ ~src => (others = {} /\ ~man)
      /\ ~man => doc = [valid |-> TRUE, obj |-> {}]
      /\ fs_dirs = (IF src THEN { SOURCE_DIR } ELSE {})
                   \cup (IF dist \in { "old", "clash" }
                         THEN { OUTPUT_DIR } ELSE {})
                   \cup (IF dist = "clash" THEN { OldArchive } ELSE {})
      /\ fs_files = source
                    \cup (IF dist = "file" THEN { << ".", OUTPUT_DIR >> } ELSE {})
                    \cup (IF dist = "old"
                          THEN { << OUTPUT_DIR,
                                    "bookmark-folder-organizer-2.1.0.xpi" >> }
                          ELSE {})
      /\ zip_content = IF dist = "old"
                       THEN { << OldArchive, << "stale.js" >> >> }
                       ELSE {}
      /\ manifest = doc
      /\ listing \in { "ascending", "descending" }
      /\ \E u \in SUBSET source : Cardinality(u) <= 1 /\ unreadable = u
      /\ pc = "main"
      /\ runs = 1
      /\ console = << >>
      /\ exc = NoExc
      /\ version = ""
      /\ output_path = ""
      /\ file_count = 0
      /\ zipf = "none"
      /\ visited = {}
      /\ decided = {}
      /\ entered = FALSE
      /\ failed_at = "none"
      /\ touched = {}
      /\ outcome = "running"
      /\ prev = NoPrev

(* ------------------------- library calls ------------------------------ *)
\* the path of a file <<root, name>> from the working directory
path_of(f) == IF f[1] = "." THEN f[2] ELSE path_join(f[1], f[2])

\* the <<root, name>> of the file a path directly under directory dir names
file_at(path, dir) == << dir, SubSeq(path, Len(dir) + 2, Len(path)) >>

\* variant: the test is made on the directory the path is relative to, the
\* working directory, which exists
path_exists_cwd(path) == TRUE

\* os.path.exists(path)
path_exists(path) ==
    \/ path \in fs_dirs
    \/ \E f \in fs_files : path_of(f) = path

\* dict.get(key, default) on the members of a JSON object
dict_get(obj, key, default) ==
    IF \E kv \in obj : kv[1] = key
    THEN (CHOOSE kv \in obj : kv[1] = key)[2]
    ELSE default

\* the entry names of the archive file at path
entries_of(path) == (CHOOSE z \in zip_content : z[1] = path)[2]

is_archive(path) == \E z \in zip_content : z[1] = path

\* variant: mode 'a', which keeps the entries of an existing archive
zip_open_append(path) == IF is_archive(path) THEN entries_of(path) ELSE << >>

\* zipfile.ZipFile(path, 'w'): the entries the file holds once it is open
zip_open_mode(path) == << >>

\* the classes `except Exception` catches
ExceptionClasses ==
    { "FileExistsError", "FileNotFoundError", "PermissionError",
      "IsADirectoryError", "JSONDecodeError" }

\* variant: except OSError
catches_OSError(cls) ==
    cls \in { "FileExistsError", "FileNotFoundError", "PermissionError",
              "IsADirectoryError" }

catches_Exception(cls) == cls \in ExceptionClasses

\* variant: os.listdir(top), which does not descend
walk_files_flat(top) == { f \in fs_files : f[1] = top }

\* the files os.walk(top) yields: those of top and of its subdirectories
walk_files(top) ==
    { f \in fs_files : f[1] = top \/ startswith(f[1], top \o "/") }

\* the file os.walk(top) yields next: top-down, a directory's files before
\* those of its subdirectories, and otherwise in listing order
walk_next(top, f) ==
    LET rest == walk_files(top) \ visited
        first == { g \in rest : \A h \in rest :
                     ~(h[1] # g[1] /\ startswith(g[1], h[1] \o "/")) }
    IN /\ f \in first
       /\ \A g \in first : rank(f) <= rank(g)

Timestamps == { "20240101_120000", "20240101_120001" }

\* variant: the timestamp is part of the name
output_filename_stamped(ver, timestamp) ==
    EXTENSION_NAME \o "-" \o ver \o "-" \o timestamp \o ".xpi"

\* output_filename as the f-string builds it (the timestamp is not used)
output_filename(ver, timestamp) == EXTENSION_NAME \o "-" \o ver \o ".xpi"

\* variant: the directory is made after the name is built
create_xpi_order_late_makedirs ==
    << "read_manifest", "build_name", "makedirs", "open_zip" >>

\* the statements of create_xpi before the walk, in program order
create_xpi_order == << "makedirs", "read_manifest", "build_name", "open_zip" >>

after(step) ==
    LET i == CHOOSE k \in 1..Len(create_xpi_order) : create_xpi_order[k] = step
    IN IF i = Len(create_xpi_order) THEN "walk" ELSE create_xpi_order[i + 1]

\* an exception raised by a statement of create_xpi outside the with block
Raise(step, cls, msg) ==
    /\ exc' = [cls |-> cls, msg |-> msg]
    /\ failed_at' = step
    /\ pc' = "except"

(* ------------------------------ main ---------------------------------- *)
\* if not os.path.exists(SOURCE_DIR): print the two error lines and return
main_check_source ==
    /\ pc = "main"
    /\ IF ~path_exists(SOURCE_DIR)
       THEN /\ console' = console \o
                 << Line("ErrorNoSource", SOURCE_DIR, 0),
                    Line("Hint", "", 0) >>
            /\ pc' = "done"
            /\ outcome' = "returned"
       ELSE /\ pc' = "check_manifest"
            /\ UNCHANGED << console, outcome >>
    /\ UNCHANGED << fs_dirs, fs_files, zip_content, env, runs, exc, version,
                    output_path, zipf, walk_vars, entered, failed_at,
                    touched, prev >>

\* variant: create_xpi() is called without the test for the manifest
main_check_manifest_unchecked ==
    /\ pc = "check_manifest"
    /\ pc' = create_xpi_order[1]
    /\ entered' = TRUE
    /\ UNCHANGED << fs_dirs, fs_files, zip_content, env, runs, console, exc,
                    version, output_path, zipf, walk_vars, failed_at,
                    touched, outcome, prev >>

\* if not os.path.exists(manifest_path): print the error and return;
\* otherwise call create_xpi() inside the try
main_check_manifest ==
    /\ pc = "check_manifest"
    /\ IF ~path_exists(path_join(SOURCE_DIR, "manifest.json"))
       THEN /\ console' = Append(console, Line("ErrorNoManifest", SOURCE_DIR, 0))
            /\ pc' = "done"
            /\ outcome' = "returned"
            /\ UNCHANGED entered
       ELSE /\ pc' = create_xpi_order[1]
            /\ entered' = TRUE
            /\ UNCHANGED << console, outcome >>
    /\ UNCHANGED << fs_dirs, fs_files, zip_content, env, runs, exc, version,
                    output_path, zipf, walk_vars, failed_at, touched, prev >>

\* except Exception as e: print the error with str(e) and return; an
\* exception the clause does not catch leaves main()
main_except ==
    /\ pc = "except"
    /\ IF catches_Exception(exc.cls)
       THEN /\ console' = Append(console, Line("ErrorCreating", exc.msg, 0))
            /\ outcome' = "returned"
       ELSE /\ outcome' = "raised"
            /\ UNCHANGED console
    /\ pc' = "done"
    /\ UNCHANGED << fs_dirs, fs_files, zip_content, env, runs, exc, version,
                    output_path, zipf, walk_vars, entered, failed_at,
                    touched, prev >>

(* ---------------------------- create_xpi ------------------------------ *)
\* os.makedirs(OUTPUT_DIR, exist_ok=True)
create_xpi_makedirs ==
    /\ pc = "makedirs"
    /\ IF OUTPUT_DIR \in fs_dirs
       THEN /\ pc' = after("makedirs")
            /\ UNCHANGED << fs_dirs, touched, exc, failed_at >>
       ELSE IF << ".", OUTPUT_DIR >> \in fs_files
       THEN /\ Raise("makedirs", "FileExistsError",
                     "File exists: '" \o OUTPUT_DIR \o "'")
            /\ UNCHANGED << fs_dirs, touched >>
       ELSE /\ fs_dirs' = fs_dirs \cup { OUTPUT_DIR }
            /\ touched' = touched \cup { OUTPUT_DIR }
            /\ pc' = after("makedirs")
            /\ UNCHANGED << exc, failed_at >>
    /\ UNCHANGED << fs_files, zip_content, env, runs, console, version,
                    output_path, zipf, walk_vars, entered, outcome, prev >>

\* with open(manifest_path) as f: manifest = json.load(f);
\* version = manifest.get('version', '1.0.0')
create_xpi_read_manifest ==
    /\ pc = "read_manifest"
    /\ IF ManifestFile \notin fs_files
       THEN /\ Raise("read_manifest", "FileNotFoundError",
                     "No such file or directory: '"
                        \o path_join(SOURCE_DIR, "manifest.json") \o "'")
            /\ UNCHANGED version
       ELSE IF ManifestFile \in unreadable
       THEN /\ Raise("read_manifest", "PermissionError",
                     "Permission denied: '"
                        \o path_join(SOURCE_DIR, "manifest.json") \o "'")
            /\ UNCHANGED version
       ELSE IF ~manifest.valid
       THEN /\ Raise("read_manifest", "JSONDecodeError", "Expecting value")
            /\ UNCHANGED version
       ELSE /\ version' = dict_get(manifest.obj, "version", "1.0.0")
            /\ pc' = after("read_manifest")
            /\ UNCHANGED << exc, failed_at >>
    /\ UNCHANGED << fs_dirs, fs_files, zip_content, env, runs, console,
                    output_path, zipf, walk_vars, entered, touched, outcome,
                    prev >>

\* timestamp, output_filename, output_path and the four header lines
create_xpi_build_name ==
    /\ pc = "build_name"
    /\ \E timestamp \in Timestamps :
          output_path' = path_join(OUTPUT_DIR, output_filename(version, timestamp))
    /\ console' = console \o
          << Line("Creating", "", 0), Line("Source", SOURCE_DIR \o "/", 0),
             Line("Output", output_path', 0), Line("Version", version, 0) >>
    /\ pc' = after("build_name")
    /\ UNCHANGED << fs_dirs, fs_files, zip_content, env, runs, exc, version,
                    file_count, zipf, visited, decided, entered, failed_at,
                    touched, outcome, prev >>

\* file_count = 0; with zipfile.ZipFile(output_path, 'w', ...) as zipf:
create_xpi_open_zip ==
    /\ pc = "open_zip"
    /\ file_count' = 0
    /\ IF output_path \in fs_dirs
       THEN /\ Raise("open_zip", "IsADirectoryError",
                     "Is a directory: '" \o output_path \o "'")
            /\ UNCHANGED << fs_files, zip_content, zipf, touched >>
       ELSE IF OUTPUT_DIR \notin fs_dirs
       THEN /\ Raise("open_zip", "FileNotFoundError",
                     "No such file or directory: '" \o output_path \o "'")
            /\ UNCHANGED << fs_files, zip_content, zipf, touched >>
       ELSE /\ fs_files' = fs_files \cup
                 { file_at(output_path, OUTPUT_DIR) }
            /\ zip_content' = { z \in zip_content : z[1] # output_path }
                              \cup { << output_path, zip_open_mode(output_path) >> }
            /\ zipf' = "open"
            /\ touched' = touched \cup { output_path }
            /\ pc' = after("open_zip")
            /\ UNCHANGED << exc, failed_at >>
    /\ UNCHANGED << fs_dirs, env, runs, console, version, output_path,
                    visited, decided, entered, outcome, prev >>

\* zipf.write(file_path, arcname): the archive with the entry appended
zip_write(path, arcname) ==
    { z \in zip_content : z[1] # path }
    \cup { << path, Append(entries_of(path), arcname) >> }

\* one iteration of the loops over os.walk(SOURCE_DIR); an exception in the
\* body leaves the with block, which closes the writer
create_xpi_walk_file ==
    /\ pc = "walk"
    /\ \E f \in fs_files :
         /\ walk_next(SOURCE_DIR, f)
         /\ LET file_path == path_join(f[1], f[2])
                arcname == relpath(file_path, SOURCE_DIR)
            IN
            /\ visited' = visited \cup { f }
            /\ decided' = { << file_path, should_include(file_path) >> }
            /\ IF should_include(file_path)
               THEN IF f \in unreadable
                    THEN /\ exc' = [cls |-> "PermissionError",
                                    msg |-> "Permission denied: '" \o file_path \o "'"]
                         /\ failed_at' = "walk"
                         /\ pc' = "close_zip"
                         /\ UNCHANGED << zip_content, console, file_count >>
                    ELSE /\ zip_content' = zip_write(output_path, arcname)
                         /\ console' = Append(console, Line("Added", arcname, 0))
                         /\ file_count' = file_count + 1
                         /\ UNCHANGED << exc, failed_at, pc >>
               ELSE /\ console' = Append(console, Line("Skipped", arcname, 0))
                    /\ UNCHANGED << zip_content, file_count, exc, failed_at, pc >>
    /\ UNCHANGED << fs_dirs, fs_files, env, runs, version, output_path, zipf,
                    entered, touched, outcome, prev >>

\* os.walk is exhausted: control leaves the with block
create_xpi_walk_end ==
    /\ pc = "walk"
    /\ walk_files(SOURCE_DIR) \ visited = {}
    /\ pc' = "close_zip"
    /\ UNCHANGED << fs_dirs, fs_files, zip_content, env, runs, console, exc,
                    version, output_path, zipf, walk_vars, entered,
                    failed_at, touched, outcome, prev >>

\* ZipFile.__exit__: close() writes the directory of the entries added so
\* far and the file stays where it is; an exception in flight goes on to
\* the caller
create_xpi_close_zip ==
    /\ pc = "close_zip"
    /\ zipf' = "closed"
    /\ pc' = IF exc = NoExc THEN "report" ELSE "except"
    /\ UNCHANGED << fs_dirs, fs_files, zip_content, env, runs, console, exc,
                    version, output_path, walk_vars, entered, failed_at,
                    touched, outcome, prev >>

\* os.path.getsize(output_path) and the summary block
create_xpi_report ==
    /\ pc = "report"
    /\ console' = console \o
          << Line("Success", "", 0), Line("File", output_path, 0),
             Line("Size", "", 0), Line("Files", "", file_count),
             Line("NextSteps", "", 3) >>
    /\ pc' = "done"
    /\ outcome' = "returned"
    /\ UNCHANGED << fs_dirs, fs_files, zip_content, env, runs, exc, version,
                    output_path, zipf, walk_vars, entered, failed_at,
                    touched, prev >>

(* --------------------------- running again ---------------------------- *)
\* the run ended with the success summary
succeeded == pc = "done" /\ outcome = "returned" /\ entered /\ failed_at = "none"

\* the script is started again in the same working directory
run_again ==
    /\ pc = "done"
    /\ runs < MaxRuns
    /\ runs' = runs + 1
    /\ prev' = IF succeeded
               THEN [ok |-> TRUE, path |-> output_path,
                     entries |-> entries_of(output_path)]
               ELSE NoPrev
    /\ pc' = "main"
    /\ console' = << >>
    /\ exc' = NoExc
    /\ version' = ""
    /\ output_path' = ""
    /\ file_count' = 0
    /\ zipf' = "none"
    /\ visited' = {}
    /\ decided' = {}
    /\ entered' = FALSE
    /\ failed_at' = "none"
    /\ touched' = {}
    /\ outcome' = "running"
    /\ UNCHANGED << fs_dirs, fs_files, zip_content, env >>

Next ==
    \/ main_check_source
    \/ main_check_manifest
    \/ main_except
    \/ create_xpi_makedirs
    \/ create_xpi_read_manifest
    \/ create_xpi_build_name
    \/ create_xpi_open_zip
    \/ create_xpi_walk_file
    \/ create_xpi_walk_end
    \/ create_xpi_close_zip
    \/ create_xpi_report
    \/ run_again

Spec == Init /\ [][Next]_vars

TypeOK ==
    /\ pc \in { "main", "check_manifest", "makedirs", "read_manifest",
                "build_name", "open_zip", "walk", "close_zip", "report",
                "except", "done" }
    /\ zipf \in { "none", "open", "closed" }
    /\ outcome \in { "running", "returned", "raised" }
    /\ runs \in 1..MaxRuns
    /\ file_count \in Nat

(* ======================= properties of the script ===================== *)
\* pattern e occurs in path p at some position (e taken literally)
Occurs(e, p) ==
    \E k \in 1..(Len(p) - Len(e) + 1) : SubSeq(p, k, k + Len(e) - 1) = e

Patterns == { EXCLUDE_PATTERNS[i] : i \in 1..Len(EXCLUDE_PATTERNS) }

\* the files under the source directory, and the name of each relative to it
SourceFiles == { f \in fs_files : startswith(path_join(f[1], f[2]), SOURCE_DIR \o "/") }
RelName(f) == CHOOSE e \in { SubSeq(path_join(f[1], f[2]), k, Len(path_join(f[1], f[2]))) :
                               k \in 1..Len(path_join(f[1], f[2])) } :
                  SOURCE_DIR \o "/" \o e = path_join(f[1], f[2])

SeqToSet(q) == { q[i] : i \in 1..Len(q) }
Lines(k) == { i \in 1..Len(console) : console[i].k = k }

SourceMissing == SOURCE_DIR \notin fs_dirs
ManifestMissing == SOURCE_DIR \in fs_dirs /\ ManifestFile \notin fs_files

\* C1: a path handed to should_include in which some exclude pattern
\* occurs literally as a substring is answered False.
C1_ExcludedSubstring ==
    \A d \in decided :
        (\E e \in Patterns : Occurs(e, d[1])) => d[2] = FALSE

\* a path holding the pattern "*.test.js" with its star was answered
\* after one holding "node_modules" was skipped
C1_Witness ==
    /\ \E d \in decided : Occurs("*.test.js", d[1]) /\ ~d[2]
    /\ \E i \in Lines("Skipped") : console[i].a = "node_modules/x.js"

C3_NoSourceNoOutput ==
    SourceMissing =>
        /\ ~entered
        /\ touched = {}
        /\ zipf = "none"
        /\ \A z \in zip_content : z = << OldArchive, << "stale.js" >> >>
        /\ pc = "done" =>
              /\ outcome = "returned"
              /\ Lines("ErrorNoSource") # {}
              /\ Lines("Success") = {}

C3_Witness ==
    SourceMissing /\ pc = "done" /\ is_archive(OldArchive)

\* C4: with a source directory that holds no manifest.json, the run never
\* enters create_xpi, creates or overwrites nothing, and ends having
\* printed the error.
C4_NoManifestNoOutput ==
    ManifestMissing =>
        /\ ~entered
        /\ touched = {}
        /\ zipf = "none"
        /\ \A z \in zip_content : z = << OldArchive, << "stale.js" >> >>
        /\ pc = "done" =>
              /\ outcome = "returned"
              /\ Lines("ErrorNoManifest") # {}
              /\ Lines("Success") = {}

C4_Witness ==
    /\ ManifestMissing /\ pc = "done" /\ is_archive(OldArchive)
    /\ Cardinality(SourceFiles) >= 2

\* the version the name must carry: the manifest's field, "1.0.0" without it
ExpectedVersion ==
    IF \E kv \in manifest.obj : kv[1] = "version"
    THEN (CHOOSE kv \in manifest.obj : kv[1] = "version")[2]
    ELSE "1.0.0"

C6_SameEntriesTwice ==
    succeeded /\ prev.ok =>
        /\ SeqToSet(entries_of(output_path)) = SeqToSet(prev.entries)
        /\ Len(entries_of(output_path)) = Len(prev.entries)

C6_Witness ==
    succeeded /\ prev.ok /\ Len(prev.entries) >= 2

\* C7: a run in which a step of create_xpi failed ends with main()
\* returning, the last line printed being the error with the failure's
\* message, and no success summary printed.
C7_FailureCaught ==
    pc = "done" /\ failed_at # "none" =>
        /\ outcome = "returned"
        /\ console # << >>
        /\ console[Len(console)].k = "ErrorCreating"
        /\ console[Len(console)].a = exc.msg
        /\ exc.msg # ""
        /\ Lines("Success") = {}

C7_Witness ==
    /\ pc = "done" /\ failed_at = "read_manifest"
    /\ exc.cls = "JSONDecodeError" /\ outcome = "returned"

\* C8: a run that failed inside the walk ends with the writer closed and
\* with no archive at the output path that lacks files of the package.
C8_NoPartialArchive ==
    pc = "done" /\ failed_at = "walk" =>
        /\ zipf = "closed"
        /\ is_archive(output_path) =>
              SeqToSet(entries_of(output_path))
                 = { RelName(f) : f \in { g \in SourceFiles :
                        should_include(path_join(g[1], g[2])) } }

\* C9: after a successful run the entries are the relative names of the
\* source files should_include accepts, each once; each source file has
\* one line, Added if it is an entry and Skipped if not; and the count
\* printed is the number of entries.  The four-file example gives
\* manifest.json and popup.js, count 2.
C9_ArchiveContent ==
    succeeded =>
        LET entries == entries_of(output_path) IN
        /\ SeqToSet(entries)
              = { RelName(f) : f \in { g \in SourceFiles :
                     should_include(path_join(g[1], g[2])) } }
        /\ \A i, j \in 1..Len(entries) : entries[i] = entries[j] => i = j
        /\ \A f \in SourceFiles :
              /\ Cardinality({ i \in Lines("Added") \cup Lines("Skipped") :
                                 console[i].a = RelName(f) }) = 1
              /\ (\E i \in Lines("Added") : console[i].a = RelName(f))
                    <=> RelName(f) \in SeqToSet(entries)
        /\ Cardinality(Lines("Added") \cup Lines("Skipped"))
              = Cardinality(SourceFiles)
        /\ \A i \in Lines("Files") : console[i].n = Len(entries)
        /\ Cardinality(Lines("Files")) = 1
        /\ SourceFiles = { ManifestFile, << SOURCE_DIR, "popup.js" >>,
                           << SOURCE_DIR, "popup.test.js" >>,
                           << SOURCE_DIR, ".DS_Store" >> }
              => /\ SeqToSet(entries) = { "manifest.json", "popup.js" }
                 /\ file_count = 2

C9_Witness ==
    /\ succeeded
    /\ SourceFiles = { ManifestFile, << SOURCE_DIR, "popup.js" >>,
                       << SOURCE_DIR, "popup.test.js" >>,
                       << SOURCE_DIR, ".DS_Store" >> }
    /\ file_count = 2

\* C10 as claimed: the output directory is not made before the version is
\* read and the name built, so a run whose manifest cannot be read or
\* parsed has not made it.
C10_DirAfterName ==
    /\ pc \in { "read_manifest", "build_name" } => OUTPUT_DIR \notin touched
    /\ failed_at = "read_manifest" => OUTPUT_DIR \notin touched

\* C10 as the code has it: the output directory is ensured first, before
\* the version is read or the name built, so it exists while the manifest
\* is read and after a run whose manifest could not be read or parsed.
C10_DirFirst ==
    /\ pc = "makedirs" => version = "" /\ output_path = ""
    /\ pc \in { "read_manifest", "build_name" } => OUTPUT_DIR \in fs_dirs
    /\ failed_at = "read_manifest" => OUTPUT_DIR \in fs_dirs

C10_Witness ==
    /\ pc = "done" /\ failed_at = "read_manifest"
    /\ OUTPUT_DIR \in touched
====
